---- MODULE Spec2Model ----
(***************************************************************************)
(* Model of the Alert block tool (src/src/index.js): configuration         *)
(* resolution, load normalisation, the three setters, save, the settings   *)
(* menu and merge, over one block instance.                                *)
(*                                                                         *)
(* JavaScript values: a string is a TLA+ string; `undefined` (for string   *)
(* valued things) is the constant undefined; an object is a record whose   *)
(* DOMAIN holds exactly the properties that are set, so a missing property *)
(* is a missing field.  Rich text is a sequence of tokens, one token per   *)
(* character or character reference, so that concatenation and the DOM's   *)
(* HTML serialisation act on it as they do on the string.                  *)
(***************************************************************************)
EXTENDS Naturals, Sequences, FiniteSets, TLC

\* The block instance: its fields _config, _data (text, alert, alertStyle,
\* align), _element (the container), _alertContent (the content element),
\* parentNode (whether _element is attached to a parent) and console (the
\* warnings printed so far).
VARIABLES this

vars == <<this>>

(* ------------------------------ bounds --------------------------------- *)

\* Longest live text (in tokens) the model lets merge build.
MaxLen == 1

(* ------------------------- JavaScript helpers -------------------------- *)

undefined == "<undefined>"

EmptyObj == [k \in {} |-> ""]

Has(obj, key) == key \in DOMAIN obj

\* Truthiness of a string-or-undefined value.
Truthy(v) == v # undefined /\ v # ""

\* Array.prototype.includes
includes(arr, v) == \E i \in 1..Len(arr) : arr[i] = v

\* arr.find((x) => x === v): the element, or undefined
find(arr, v) == IF includes(arr, v) THEN v ELSE undefined

Range(arr) == {arr[i] : i \in 1..Len(arr)}

(* ------------------------------ Catalog -------------------------------- *)

ALERT_TYPES == <<"info", "success", "blocked", "warning", "danger">>

DEFAULT_ALERT_TYPE == "info"

ALERT_STYLES == <<"pastel", "solid", "outlined">>

DEFAULT_ALERT_STYLE == "pastel"

ALIGN_TYPES == <<"left", "center", "right", "justify">>

DEFAULT_ALIGN_TYPE == "left"

\* The three console.warn messages.
WarnType == "the default alert type specified is invalid"

WarnStyle == "the default alert style specified is invalid"

WarnAlign == "the default align type specified is invalid"

(* --------------------------- ConfigResolver ---------------------------- *)

availableTypes(cfg) ==
    IF Has(cfg, "alertTypes")
    THEN SelectSeq(ALERT_TYPES, LAMBDA type : includes(cfg.alertTypes, type))
    ELSE ALERT_TYPES

\* Mutant: an invalid default falls back to the first available type.
userDefaultType_firstAvailable(cfg) ==
    IF Has(cfg, "defaultAlertType") /\ Truthy(cfg.defaultAlertType)
    THEN LET userSpecified == find(availableTypes(cfg), cfg.defaultAlertType)
         IN  IF Truthy(userSpecified)
             THEN [ret |-> userSpecified, warn |-> {}]
             ELSE [ret |-> IF availableTypes(cfg) = <<>> THEN DEFAULT_ALERT_TYPE
                           ELSE availableTypes(cfg)[1],
                   warn |-> {WarnType}]
    ELSE [ret |-> DEFAULT_ALERT_TYPE, warn |-> {}]

\* A getter's result: the value returned and the warnings it printed.
userDefaultType(cfg) ==
    IF Has(cfg, "defaultAlertType") /\ Truthy(cfg.defaultAlertType)
    THEN LET userSpecified == find(availableTypes(cfg), cfg.defaultAlertType)
         IN  IF Truthy(userSpecified)
             THEN [ret |-> userSpecified, warn |-> {}]
             ELSE [ret |-> DEFAULT_ALERT_TYPE, warn |-> {WarnType}]
    ELSE [ret |-> DEFAULT_ALERT_TYPE, warn |-> {}]

availableStyles(cfg) ==
    IF Has(cfg, "alertStyles")
    THEN SelectSeq(ALERT_STYLES, LAMBDA style : includes(cfg.alertStyles, style))
    ELSE ALERT_STYLES

userDefaultStyle(cfg) ==
    IF Has(cfg, "defaultAlertStyle") /\ Truthy(cfg.defaultAlertStyle)
    THEN LET userSpecified == find(availableStyles(cfg), cfg.defaultAlertStyle)
         IN  IF Truthy(userSpecified)
             THEN [ret |-> userSpecified, warn |-> {}]
             ELSE [ret |-> DEFAULT_ALERT_STYLE, warn |-> {WarnStyle}]
    ELSE [ret |-> DEFAULT_ALERT_STYLE, warn |-> {}]

availableAlignTypes(cfg) ==
    IF Has(cfg, "alignTypes")
    THEN SelectSeq(ALIGN_TYPES, LAMBDA align : includes(cfg.alignTypes, align))
    ELSE ALIGN_TYPES

\* Mutant: the configured default is returned without being looked up in
\* the available alignments.
userDefaultAlignType_unchecked(cfg) ==
    IF Has(cfg, "defaultAlignType") /\ Truthy(cfg.defaultAlignType)
    THEN [ret |-> cfg.defaultAlignType, warn |-> {}]
    ELSE [ret |-> DEFAULT_ALIGN_TYPE, warn |-> {}]

userDefaultAlignType(cfg) ==
    IF Has(cfg, "defaultAlignType") /\ Truthy(cfg.defaultAlignType)
    THEN LET userSpecified == find(availableAlignTypes(cfg), cfg.defaultAlignType)
         IN  IF Truthy(userSpecified)
             THEN [ret |-> userSpecified, warn |-> {}]
             ELSE [ret |-> DEFAULT_ALIGN_TYPE, warn |-> {WarnAlign}]
    ELSE [ret |-> DEFAULT_ALIGN_TYPE, warn |-> {}]

(* ------------------------------ StateStore ----------------------------- *)

\* A value handed to the constructor as `data`.
JSundefined == [typeof |-> "undefined"]

JSstring == [typeof |-> "string"]

JSnull == [typeof |-> "object", isNull |-> TRUE, props |-> EmptyObj]

JSobject(obj) == [typeof |-> "object", isNull |-> FALSE, props |-> obj]

\* threw: reading a property of null raises a TypeError.
_normalizeData(cfg, data) ==
    IF data.typeof = "object" /\ data.isNull
    THEN [threw |-> TRUE, ret |-> EmptyObj, warn |-> {}]
    ELSE LET obj == IF data.typeof # "object" THEN EmptyObj ELSE data.props
             hasAlert == Has(obj, "alert") /\ Truthy(obj.alert)
             hasStyle == Has(obj, "alertStyle") /\ Truthy(obj.alertStyle)
             hasAlign == Has(obj, "align") /\ Truthy(obj.align)
         IN  [threw |-> FALSE,
              ret |-> [text |-> IF Has(obj, "text") /\ obj.text # <<>>
                                THEN obj.text ELSE <<>>,
                       alert |-> IF hasAlert THEN obj.alert
                                 ELSE userDefaultType(cfg).ret,
                       alertStyle |-> IF hasStyle THEN obj.alertStyle
                                      ELSE userDefaultStyle(cfg).ret,
                       align |-> IF hasAlign THEN obj.align
                                 ELSE userDefaultAlignType(cfg).ret],
              warn |-> (IF hasAlert THEN {} ELSE userDefaultType(cfg).warn)
                       \cup (IF hasStyle THEN {} ELSE userDefaultStyle(cfg).warn)
                       \cup (IF hasAlign THEN {} ELSE userDefaultAlignType(cfg).warn)]

\* Mutant: the persisted value is trusted, not looked up in the available
\* types.
currentType_raw(cfg, data) == [ret |-> data.alert, warn |-> {}]

currentType(cfg, data) ==
    LET alertType == find(availableTypes(cfg), data.alert)
    IN  IF Truthy(alertType) THEN [ret |-> alertType, warn |-> {}]
        ELSE userDefaultType(cfg)

currentStyle(cfg, data) ==
    LET alertStyle == find(availableStyles(cfg), data.alertStyle)
    IN  IF Truthy(alertStyle) THEN [ret |-> alertStyle, warn |-> {}]
        ELSE userDefaultStyle(cfg)

currentAlignType(cfg, data) ==
    LET alignType == find(availableAlignTypes(cfg), data.align)
    IN  IF Truthy(alignType) THEN [ret |-> alignType, warn |-> {}]
        ELSE userDefaultAlignType(cfg)

(* ------------------------------ Presenter ------------------------------ *)

\* this._CSS
wrapper == "ce-alert"

wrapperForAlertIcon == "ce-alert-icon"

wrapperForAlertContent == "ce-alert-content"

wrapperForAlertStyle(alertType, alertStyle) ==
    "ce-alert-" \o alertStyle \o "-" \o alertType

wrapperForAlignment(alignType) == "ce-alert-align-" \o alignType

_getAlertIcon(alertType) ==
    IF alertType = "success" THEN "successIcon"
    ELSE IF alertType = "blocked" THEN "blockedIcon"
    ELSE IF alertType = "warning" THEN "warningIcon"
    ELSE IF alertType = "danger" THEN "dangerIcon"
    ELSE "infoIcon"

_getAlertStyleIcon(alertStyle) ==
    IF alertStyle = "solid" THEN "solidIcon"
    ELSE IF alertStyle = "outlined" THEN "outlinedIcon"
    ELSE "pastelIcon"

\* What element.innerHTML reads after `element.innerHTML = html`: the markup is
\* parsed and serialised again, and a bare ampersand comes back as the
\* character reference &amp; (a reference is parsed to the character and
\* serialised as the same reference).
innerHTML(html) ==
    [i \in 1..Len(html) |-> IF html[i] = "&" THEN "&amp;" ELSE html[i]]

\* The container, the content element (this._alertContent) and the warnings of
\* the getters read on the way.
_getElement(cfg, data) ==
    LET type == currentType(cfg, data)
        style == currentStyle(cfg, data)
        align == currentAlignType(cfg, data)
    IN  [container |->
             [classList |-> {wrapper, wrapperForAlertStyle(type.ret, style.ret)},
              alertIcon |-> [classList |-> {wrapperForAlertIcon},
                             innerHTML |-> _getAlertIcon(type.ret)]],
         content |->
             [classList |-> {wrapperForAlertContent, wrapperForAlignment(align.ret)},
              innerHTML |-> innerHTML(data.text)],
         warn |-> type.warn \cup style.warn \cup align.warn]

\* new Alert({config, data}): threw when _normalizeData raised, else the
\* instance; a fresh element has no parent.
constructor(config, data) ==
    LET norm == _normalizeData(config, data)
    IN  IF norm.threw
        THEN [threw |-> TRUE, self |-> EmptyObj]
        ELSE LET el == _getElement(config, norm.ret)
             IN  [threw |-> FALSE,
                  self |-> [_config |-> config,
                            _data |-> norm.ret,
                            _element |-> el.container,
                            _alertContent |-> el.content,
                            parentNode |-> FALSE,
                            console |-> norm.warn \cup el.warn]]

\* The replaceChild branch shared by the two rebuilding setters: the new tree
\* takes the old one's place under the same parent.
Rebuild(self, data) ==
    LET el == _getElement(self._config, data)
    IN  [self EXCEPT !._data = data,
                     !._element = el.container,
                     !._alertContent = el.content,
                     !.console = @ \cup el.warn]

\* Mutant: the live text is not captured before the rebuild.
_setAlertType_noCapture(self, newType) ==
    LET dflt == userDefaultType(self._config)
        data == [self._data EXCEPT
                    !.alert = IF Truthy(newType) THEN newType ELSE dflt.ret]
        warned == [self EXCEPT
                    !.console = @ \cup (IF Truthy(newType) THEN {} ELSE dflt.warn)]
    IN  IF newType # undefined /\ self.parentNode
        THEN Rebuild(warned, data)
        ELSE [warned EXCEPT !._data = data]

_setAlertType(self, newType) ==
    LET dflt == userDefaultType(self._config)
        data == [self._data EXCEPT
                    !.text = self._alertContent.innerHTML,
                    !.alert = IF Truthy(newType) THEN newType ELSE dflt.ret]
        warned == [self EXCEPT
                    !.console = @ \cup (IF Truthy(newType) THEN {} ELSE dflt.warn)]
    IN  IF newType # undefined /\ self.parentNode
        THEN Rebuild(warned, data)
        ELSE [warned EXCEPT !._data = data]

_setAlertStyle(self, newStyle) ==
    LET dflt == userDefaultStyle(self._config)
        data == [self._data EXCEPT
                    !.text = self._alertContent.innerHTML,
                    !.alertStyle = IF Truthy(newStyle) THEN newStyle ELSE dflt.ret]
        warned == [self EXCEPT
                    !.console = @ \cup (IF Truthy(newStyle) THEN {} ELSE dflt.warn)]
    IN  IF newStyle # undefined /\ self.parentNode
        THEN Rebuild(warned, data)
        ELSE [warned EXCEPT !._data = data]

\* The forEach over ALIGN_TYPES, from index i on: remove the class, add it
\* back when it is the new alignment's.
RECURSIVE swapAlignClass(_, _, _)
swapAlignClass(classList, newAlign, i) ==
    IF i > Len(ALIGN_TYPES) THEN classList
    ELSE LET align == ALIGN_TYPES[i]
             alignClass == wrapperForAlignment(align)
             removed == classList \ {alignClass}
         IN  swapAlignClass(IF newAlign = align
                            THEN removed \cup {alignClass} ELSE removed,
                            newAlign, i + 1)

\* Mutant: the new class is added and the old one is left in place.
_setAlignType_addOnly(self, newAlign) ==
    [self EXCEPT
        !._data.align = newAlign,
        !._alertContent.classList = @ \cup {wrapperForAlignment(newAlign)}]

_setAlignType(self, newAlign) ==
    [self EXCEPT
        !._data.align = newAlign,
        !._alertContent.classList = swapAlignClass(@, newAlign, 1)]

\* Mutant: the style is exported in the alert property.
save_styleAsAlert(self) ==
    LET style == currentStyle(self._config, self._data)
        align == currentAlignType(self._config, self._data)
    IN  [ret |-> [text |-> self._alertContent.innerHTML,
                  alert |-> style.ret,
                  alertStyle |-> style.ret,
                  align |-> align.ret],
         warn |-> style.warn \cup align.warn]

save(self) ==
    LET type == currentType(self._config, self._data)
        style == currentStyle(self._config, self._data)
        align == currentAlignType(self._config, self._data)
    IN  [ret |-> [text |-> self._alertContent.innerHTML,
                  alert |-> type.ret,
                  alertStyle |-> style.ret,
                  align |-> align.ret],
         warn |-> type.warn \cup style.warn \cup align.warn]

(* ----------------------------- SettingsMenu ---------------------------- *)

\* The label (host translation) is left out; onActivate is the setter the
\* closure calls and its argument.
_createSetting(icon, onActivate, isActive, group) ==
    [icon |-> icon, onActivate |-> onActivate, isActive |-> isActive,
     closeOnActivate |-> TRUE, toggle |-> group]

\* Mutant: isActive compares with the stored values, not with the current
\* ones.
renderSettings_stored(self) ==
    LET types == availableTypes(self._config)
        styles == availableStyles(self._config)
        aligns == availableAlignTypes(self._config)
        alertTypes == [i \in 1..Len(types) |->
            _createSetting(_getAlertIcon(types[i]),
                           [setter |-> "_setAlertType", arg |-> types[i]],
                           types[i] = self._data.alert, "alert")]
        alertStyles == [i \in 1..Len(styles) |->
            _createSetting(_getAlertStyleIcon(styles[i]),
                           [setter |-> "_setAlertStyle", arg |-> styles[i]],
                           styles[i] = self._data.alertStyle, "alert-style")]
        alignTypes == [i \in 1..Len(aligns) |->
            _createSetting("alignmentIcon",
                           [setter |-> "_setAlignType", arg |-> aligns[i]],
                           aligns[i] = self._data.align, "align")]
    IN  [ret |-> alertTypes \o alertStyles \o alignTypes, warn |-> {}]

renderSettings(self) ==
    LET cfg == self._config
        type == currentType(cfg, self._data)
        style == currentStyle(cfg, self._data)
        align == currentAlignType(cfg, self._data)
        types == availableTypes(cfg)
        styles == availableStyles(cfg)
        aligns == availableAlignTypes(cfg)
        alertTypes == [i \in 1..Len(types) |->
            _createSetting(_getAlertIcon(types[i]),
                           [setter |-> "_setAlertType", arg |-> types[i]],
                           types[i] = type.ret, "alert")]
        alertStyles == [i \in 1..Len(styles) |->
            _createSetting(_getAlertStyleIcon(styles[i]),
                           [setter |-> "_setAlertStyle", arg |-> styles[i]],
                           styles[i] = style.ret, "alert-style")]
        alignTypes == [i \in 1..Len(aligns) |->
            _createSetting("alignmentIcon",
                           [setter |-> "_setAlignType", arg |-> aligns[i]],
                           aligns[i] = align.ret, "align")]
    IN  [ret |-> alertTypes \o alertStyles \o alignTypes,
         warn |-> (IF types = <<>> THEN {} ELSE type.warn)
                  \cup (IF styles = <<>> THEN {} ELSE style.warn)
                  \cup (IF aligns = <<>> THEN {} ELSE align.warn)]

\* String(data.text) in `innerHTML + data.text`: a missing text concatenates
\* as the word "undefined".
ToStringText(data) == IF Has(data, "text") THEN data.text ELSE <<"undefined">>

\* innerHTML = (innerHTML + data.text) || ''
merge(self, data) ==
    LET joined == self._alertContent.innerHTML \o ToStringText(data)
    IN  [self EXCEPT !._alertContent.innerHTML =
                        innerHTML(IF joined # <<>> THEN joined ELSE <<>>)]

(* -------------------------------- inputs ------------------------------- *)

\* Host allow-lists, in the host's order; "bogus" is no Catalog member.
TypeLists == {<<"info">>, <<"success", "danger">>}

TypeDefaults == {"info", "danger"}

StyleLists == {<<"outlined", "solid">>}

StyleDefaults == {"solid"}

AlignLists == {<<"right", "center">>}

AlignDefaults == {"center"}

\* Every way to set, or leave out, the allow-list and the default of a dimension.
Parts(listKey, lists, defaultKey, defaults) ==
    LET allow == {EmptyObj} \cup {listKey :> l : l \in lists}
        dflt == {EmptyObj} \cup {defaultKey :> d : d \in defaults}
    IN  {a @@ d : a \in allow, d \in dflt}

\* Configurations that restrict several dimensions at once.
MixedConfigs ==
    {[alertTypes |-> <<"danger", "bogus", "info">>, defaultAlertType |-> "",
      alertStyles |-> <<"outlined", "solid">>, defaultAlertStyle |-> "pastel",
      alignTypes |-> <<"right", "center">>, defaultAlignType |-> "justify"],
     [alertTypes |-> <<>>, alertStyles |-> <<"solid">>,
      defaultAlertStyle |-> "bogus", defaultAlignType |-> "right"]}

\* The host configurations: each dimension configured alone in every way, and
\* the mixed ones.
Configs ==
    Parts("alertTypes", TypeLists, "defaultAlertType", TypeDefaults)
    \cup Parts("alertStyles", StyleLists, "defaultAlertStyle", StyleDefaults)
    \cup Parts("alignTypes", AlignLists, "defaultAlignType", AlignDefaults)
    \cup MixedConfigs

\* Persisted block data: each property present or missing.
Props(key, values) == {EmptyObj} \cup {key :> v : v \in values}

PersistedObjects ==
    {t @@ a @@ s @@ g :
        t \in Props("text", {<<>>, <<"&">>}),
        a \in Props("alert", {"danger", "bogus"}),
        s \in Props("alertStyle", {"solid"}),
        g \in Props("align", {"right"})}

PersistedInputs ==
    {JSundefined, JSstring, JSnull} \cup {JSobject(obj) : obj \in PersistedObjects}

\* Arguments of direct setter calls; the menu passes available members only.
TypeArgs == {"success", "", undefined}

StyleArgs == {"outlined", undefined}

AlignArgs == {"center", undefined}

\* What the user may leave in the editable surface (as innerHTML reads it).
EditedTexts == {<<"a">>}

\* The other block's data handed to merge.
MergeInputs == {EmptyObj, [text |-> <<>>], [text |-> <<"&">>]}

(* ----------------------------- state machine --------------------------- *)

\* The state after construction, for every configuration and persisted input
\* the constructor does not throw on.
Init ==
    \E config \in Configs, data \in PersistedInputs :
        LET made == constructor(config, data)
        IN  /\ ~made.threw
            /\ this = made.self

\* The host mounts what render() returns.
Render ==
    /\ ~this.parentNode
    /\ this' = [this EXCEPT !.parentNode = TRUE]

\* The user types in the editable surface.
Edit ==
    \E text \in EditedTexts :
        this' = [this EXCEPT !._alertContent.innerHTML = text]

SetAlertType ==
    \E newType \in TypeArgs : this' = _setAlertType(this, newType)

SetAlertStyle ==
    \E newStyle \in StyleArgs : this' = _setAlertStyle(this, newStyle)

SetAlignType ==
    \E newAlign \in AlignArgs : this' = _setAlignType(this, newAlign)

Save ==
    this' = [this EXCEPT !.console = @ \cup save(this).warn]

RenderSettings ==
    this' = [this EXCEPT !.console = @ \cup renderSettings(this).warn]

Merge ==
    \E data \in MergeInputs :
        /\ Len(this._alertContent.innerHTML) + Len(ToStringText(data)) <= MaxLen
        /\ this' = merge(this, data)

Next ==
    \/ Render
    \/ Edit
    \/ SetAlertType
    \/ SetAlertStyle
    \/ SetAlignType
    \/ Save
    \/ RenderSettings
    \/ Merge

Spec == Init /\ [][Next]_vars

\* The host saves the document and loads it again under the unchanged
\* configuration: a new block is constructed from what save() returned.
Reload ==
    LET made == constructor(this._config, JSobject(save(this).ret))
    IN  /\ ~made.threw
        /\ this' = made.self

\* Construction alone: blocks as the constructor leaves them, reloaded any
\* number of times.
LoadSpec == Init /\ [][Reload]_vars

(* ------------------------------- claims -------------------------------- *)

cfg == this._config

CurType == currentType(cfg, this._data).ret

CurStyle == currentStyle(cfg, this._data).ret

CurAlign == currentAlignType(cfg, this._data).ret

\* A default counts as configured when the property is set to a non-empty
\* string.
Configured(config, key) == Has(config, key) /\ config[key] # ""

\* The (text, type, style, alignment) state of a block.
BlockState(self) ==
    [text |-> self._alertContent.innerHTML,
     type |-> currentType(self._config, self._data).ret,
     style |-> currentStyle(self._config, self._data).ret,
     alignment |-> currentAlignType(self._config, self._data).ret]

AlignClasses == {wrapperForAlignment(ALIGN_TYPES[i]) : i \in 1..Len(ALIGN_TYPES)}

\* C1 (as stated): in every reachable state the current type, style and
\* alignment, as the getters read them and as save() exports them, are
\* members of the available set of their dimension and are not undefined.
C1_CurrentInAvailable ==
    LET saved == save(this).ret
    IN  /\ CurType \in Range(availableTypes(cfg))
        /\ CurStyle \in Range(availableStyles(cfg))
        /\ CurAlign \in Range(availableAlignTypes(cfg))
        /\ undefined \notin {CurType, CurStyle, CurAlign}
        /\ saved.alert = CurType
        /\ saved.alertStyle = CurStyle
        /\ saved.align = CurAlign

\* Either a member of the available set, or the Catalog default standing in
\* because it is excluded by the allow-list and no configured default is a
\* member.
MemberOrCatalogDefault(cur, available, catalogDefault, config, key) ==
    \/ cur \in Range(available)
    \/ /\ cur = catalogDefault
       /\ catalogDefault \notin Range(available)
       /\ ~(Configured(config, key) /\ config[key] \in Range(available))

\* C1 (amended): in every reachable state the current type, style and
\* alignment are never undefined, save() exports exactly them, and each is a
\* member of its available set or else the Catalog's hardcoded default of
\* the dimension, which happens only when the allow-list excludes that
\* default and no configured default is a member.
C1_CurrentInAvailableOrCatalogDefault ==
    LET saved == save(this).ret
    IN  /\ MemberOrCatalogDefault(CurType, availableTypes(cfg),
                                  DEFAULT_ALERT_TYPE, cfg, "defaultAlertType")
        /\ MemberOrCatalogDefault(CurStyle, availableStyles(cfg),
                                  DEFAULT_ALERT_STYLE, cfg, "defaultAlertStyle")
        /\ MemberOrCatalogDefault(CurAlign, availableAlignTypes(cfg),
                                  DEFAULT_ALIGN_TYPE, cfg, "defaultAlignType")
        /\ undefined \notin {CurType, CurStyle, CurAlign}
        /\ saved.alert = CurType
        /\ saved.alertStyle = CurStyle
        /\ saved.align = CurAlign

\* A block under a style allow-list, loaded with an available style, whose
\* type was set to success and whose alignment was set to undefined: the
\* getters give the members and, for the alignment, the default.
C1_Witness ==
    /\ Has(cfg, "alertStyles")
    /\ this._data.alert = "success" /\ CurType = "success"
    /\ this._data.alertStyle = "solid" /\ CurStyle = "solid"
    /\ this._data.align = undefined /\ CurAlign = DEFAULT_ALIGN_TYPE

\* C2: round trip.  A second block constructed under the same configuration
\* from save() of a constructed block has the same (text, type, style,
\* alignment) state as that block.  Under LoadSpec every reachable state is
\* a block as construction left it.
C2_RoundTrip ==
    LET second == constructor(cfg, JSobject(save(this).ret))
    IN  /\ ~second.threw
        /\ BlockState(second.self) = BlockState(this)

\* A freshly constructed block whose persisted text and type were both
\* normalised on load: the round trip starts from a state that differs from
\* the persisted input.
C2_Witness ==
    /\ ~this.parentNode
    /\ this._data.text = <<"&">> /\ this._alertContent.innerHTML = <<"&amp;">>
    /\ this._data.alert = "bogus" /\ CurType = "danger"

\* The indices of the menu's active actions of a group.
ActiveOf(settings, group) ==
    {i \in 1..Len(settings) : settings[i].toggle = group /\ settings[i].isActive}

\* C3 (as stated): in every reachable state each of the three groups of
\* renderSettings() holds exactly one active action, and that action sets the
\* block's current value of the dimension.
C3_MenuExactlyOneActive ==
    LET settings == renderSettings(this).ret
        OneActive(group, cur) ==
            /\ Cardinality(ActiveOf(settings, group)) = 1
            /\ \A i \in ActiveOf(settings, group) : settings[i].onActivate.arg = cur
    IN  /\ OneActive("alert", CurType)
        /\ OneActive("alert-style", CurStyle)
        /\ OneActive("align", CurAlign)

\* C3 (amended): in every reachable state, in each group the active actions
\* are exactly the actions that set the block's current value; there is at
\* most one, and there is exactly one if and only if the current value is a
\* member of the group's available set (none is active when the current
\* value is a Catalog default the allow-list excludes).
C3_MenuActiveIffCurrent ==
    LET settings == renderSettings(this).ret
        Group(group, cur, available) ==
            /\ ActiveOf(settings, group) =
                   {i \in 1..Len(settings) :
                       /\ settings[i].toggle = group
                       /\ settings[i].onActivate.arg = cur}
            /\ Cardinality(ActiveOf(settings, group)) <= 1
            /\ Cardinality(ActiveOf(settings, group)) = 1
                   <=> cur \in Range(available)
            /\ [i \in 1..Len(available) |->
                   SelectSeq(settings, LAMBDA x : x.toggle = group)[i].onActivate.arg]
                   = available
    IN  /\ Group("alert", CurType, availableTypes(cfg))
        /\ Group("alert-style", CurStyle, availableStyles(cfg))
        /\ Group("align", CurAlign, availableAlignTypes(cfg))

\* After setType("success") on a block loaded with style solid under an
\* alignment allow-list that excludes the Catalog default: the success and
\* solid actions are the active ones, and no alignment action is.
C3_Witness ==
    LET settings == renderSettings(this).ret
    IN  /\ Has(cfg, "alignTypes")
        /\ this._data.alert = "success"
        /\ this._data.alertStyle = "solid"
        /\ \E i \in ActiveOf(settings, "alert") :
               settings[i].onActivate.arg = "success"
        /\ \E i \in ActiveOf(settings, "alert-style") :
               settings[i].onActivate.arg = "solid"
        /\ CurAlign = "left" /\ ActiveOf(settings, "align") = {}

\* The persisted value of a property: undefined when the input is no object
\* or lacks it.
Raw(data, key) ==
    IF data.typeof = "object" /\ Has(data.props, key) THEN data.props[key]
    ELSE undefined

\* What load normalisation is to give for persisted input data.
Normalized(config, data) ==
    [type |-> IF Raw(data, "alert") \in Range(availableTypes(config))
              THEN Raw(data, "alert") ELSE userDefaultType(config).ret,
     style |-> IF Raw(data, "alertStyle") \in Range(availableStyles(config))
               THEN Raw(data, "alertStyle") ELSE userDefaultStyle(config).ret,
     alignment |-> IF Raw(data, "align") \in Range(availableAlignTypes(config))
                   THEN Raw(data, "align") ELSE userDefaultAlignType(config).ret]

LoadedAsNormalized(config, data) ==
    LET made == constructor(config, data)
    IN  /\ ~made.threw
        /\ BlockState(made.self).type = Normalized(config, data).type
        /\ BlockState(made.self).style = Normalized(config, data).style
        /\ BlockState(made.self).alignment = Normalized(config, data).alignment

\* C4: load normalisation.  For every persisted input (absent, no object, or
\* an object) construction yields, for each dimension, the persisted value
\* when it is a member of the available set and the resolved default
\* otherwise.
C4_LoadNormalization ==
    \A data \in PersistedInputs : LoadedAsNormalized(cfg, data)

\* The same for every persisted input but null; this holds.
C4_LoadNormalizationExceptNull ==
    \A data \in PersistedInputs \ {JSnull} : LoadedAsNormalized(cfg, data)

Scenario2 ==
    [alertTypes |-> <<"success", "danger">>, defaultAlertType |-> "info"]

\* C5 (as stated): under Scenario 2's configuration the available types are
\* success, danger in Catalog order, the resolved default type is "success",
\* and the invalid-default warning is printed.
C5_Scenario2DefaultSuccess ==
    cfg = Scenario2 =>
        /\ availableTypes(cfg) = <<"success", "danger">>
        /\ userDefaultType(cfg).ret = "success"
        /\ userDefaultType(cfg).warn = {WarnType}

\* C5 (amended): under Scenario 2's configuration the available types are
\* success, danger in Catalog order, the resolved default type is the
\* Catalog default "info", which is not an available type, and the
\* invalid-default warning is printed; a block loaded there without a valid
\* persisted type reads type "info" and has the warning on the console.
C5_Scenario2DefaultInfo ==
    cfg = Scenario2 =>
        /\ availableTypes(cfg) = <<"success", "danger">>
        /\ userDefaultType(cfg).ret = "info"
        /\ "info" \notin Range(availableTypes(cfg))
        /\ userDefaultType(cfg).warn = {WarnType}
        /\ this._data.alert \notin Range(availableTypes(cfg)) =>
               CurType = "info"
        /\ CurType = "info" => WarnType \in this.console

\* A block under Scenario 2's configuration whose type had to be resolved.
C5_Witness ==
    /\ cfg = Scenario2
    /\ CurType = "info"
    /\ this.console = {WarnType}

\* C6: default resolution.  For every configuration and each dimension
\* the resolved default is the configured default when that is a member of
\* the available set and the Catalog default otherwise; the getter warns
\* exactly when a default is configured and is no member; it always returns
\* a value; and a warning on the block's console is one of these.
C6_DefaultResolution ==
    LET Resolves(got, config, key, available, catalogDefault, warning) ==
            LET valid == Configured(config, key) /\ config[key] \in Range(available)
            IN  /\ got.ret = IF valid THEN config[key] ELSE catalogDefault
                /\ got.ret # undefined
                /\ got.warn = IF Configured(config, key) /\ ~valid
                              THEN {warning} ELSE {}
                /\ warning \in this.console => Configured(config, key) /\ ~valid
    IN  /\ Resolves(userDefaultType(cfg), cfg, "defaultAlertType",
                    availableTypes(cfg), DEFAULT_ALERT_TYPE, WarnType)
        /\ Resolves(userDefaultStyle(cfg), cfg, "defaultAlertStyle",
                    availableStyles(cfg), DEFAULT_ALERT_STYLE, WarnStyle)
        /\ Resolves(userDefaultAlignType(cfg), cfg, "defaultAlignType",
                    availableAlignTypes(cfg), DEFAULT_ALIGN_TYPE, WarnAlign)
        /\ this.console \subseteq {WarnType, WarnStyle, WarnAlign}

\* A block under a configuration with an empty type default (not
\* configured), an invalid style default and an invalid alignment default:
\* two warnings, and the Catalog defaults.
C6_Witness ==
    /\ Has(cfg, "defaultAlertType") /\ cfg.defaultAlertType = ""
    /\ this.console = {WarnStyle, WarnAlign}
    /\ userDefaultStyle(cfg).ret = "pastel"
    /\ userDefaultAlignType(cfg).ret = "left"

\* C7: for every available type t, setType(t) followed by save() returns
\* alert = t and the text that was in the editable surface when setType was
\* called, whatever was typed or merged there since construction; the same
\* for every available style and setStyle.
C7_SetThenSave ==
    /\ \A t \in Range(availableTypes(cfg)) :
           LET saved == save(_setAlertType(this, t)).ret
           IN  /\ saved.alert = t
               /\ saved.text = this._alertContent.innerHTML
    /\ \A st \in Range(availableStyles(cfg)) :
           LET saved == save(_setAlertStyle(this, st)).ret
           IN  /\ saved.alertStyle = st
               /\ saved.text = this._alertContent.innerHTML

\* A mounted block constructed without text whose user typed "a" and whose
\* type was then set to success: the rebuilt tree shows the typed text.
C7_Witness ==
    /\ this.parentNode
    /\ this._data.alert = "success"
    /\ this._data.text = <<"a">>
    /\ save(this).ret.alert = "success"
    /\ save(this).ret.text = <<"a">>
    /\ wrapperForAlertStyle("success", CurStyle) \in this._element.classList

\* C8: for every Catalog alignment x, setAlignment(x) twice leaves the
\* content element with the same classes as once, and after setAlignment(x)
\* the content element carries exactly one alignment class, that of x, its
\* other classes being untouched.
C8_AlignmentSwap ==
    \A x \in Range(ALIGN_TYPES) :
        LET once == _setAlignType(this, x)
            twice == _setAlignType(once, x)
        IN  /\ twice._alertContent.classList = once._alertContent.classList
            /\ once._alertContent.classList \cap AlignClasses
                   = {wrapperForAlignment(x)}
            /\ once._alertContent.classList \ AlignClasses
                   = this._alertContent.classList \ AlignClasses
            /\ once._data.align = x

\* A block with no configured alignment default whose alignment was set to
\* center: the content element carries that class alone.
C8_Witness ==
    /\ ~Has(cfg, "defaultAlignType")
    /\ this._data.align = "center"
    /\ this._alertContent.classList
           = {wrapperForAlertContent, wrapperForAlignment("center")}

\* C9: for every other-block data, merge leaves as live content the
\* receiving block's live content followed by the other block's text, nothing
\* being appended when that text is empty or missing, and leaves type, style
\* and alignment as they were.
C9_MergeAppends ==
    \A data \in MergeInputs :
        LET after == merge(this, data)
            text == IF Has(data, "text") THEN data.text ELSE <<>>
        IN  /\ after._alertContent.innerHTML
                   = innerHTML(this._alertContent.innerHTML \o text)
            /\ BlockState(after).type = CurType
            /\ BlockState(after).style = CurStyle
            /\ BlockState(after).alignment = CurAlign

\* The frame part of C9 alone; this holds.
C9_MergeKeepsSettings ==
    \A data \in MergeInputs :
        LET after == merge(this, data)
        IN  /\ BlockState(after).type = CurType
            /\ BlockState(after).style = CurStyle
            /\ BlockState(after).alignment = CurAlign
            /\ Has(data, "text") =>
                   after._alertContent.innerHTML
                       = innerHTML(this._alertContent.innerHTML \o data.text)

\* C10: in every reachable state the tree render() returns carries the style
\* class of the current type and style, and its content element carries the
\* alignment class of the current alignment and no other, as save() reports
\* them.
C10_RenderedInSync ==
    LET saved == save(this).ret
    IN  /\ this._element.classList
               = {wrapper, wrapperForAlertStyle(saved.alert, saved.alertStyle)}
        /\ this._alertContent.classList \cap AlignClasses
               = {wrapperForAlignment(saved.align)}

====
